---- MODULE Spec2Model ----
\* Linkage attributes (src/src/attributes/linkage.rs) and the Module aggregate
\* (src/src/module_elements/module.rs), driven by a caller that constructs
\* values, formats them and compares them.
EXTENDS Integers, Sequences, FiniteSets, TLC

\* ---------------------------------------------------------------- bounds
\* number of distinct Function / GlobalVariable / Metadata values considered
NumElems == 2
\* largest total number of elements held by a struct-literal Module
MaxElems == 2

\* ---------------------------------------------------------------- Option
\* Option<T> is a sequence of length at most one
None == <<>>
Some(x) == <<x>>

\* ---------------------------------------------------------------- Linkage
\* the variants of enum Linkage, in declaration order
LinkageVariants ==
  {"Private", "Internal", "AvailableExternally", "LinkOnce", "Weak", "Common",
   "Appending", "ExternWeak", "LinkOnceODR", "WeakODR", "External"}

\* the discriminant rustc gives each fieldless variant: its declaration index
Discriminant(v) ==
  CASE v = "Private" -> 0
    [] v = "Internal" -> 1
    [] v = "AvailableExternally" -> 2
    [] v = "LinkOnce" -> 3
    [] v = "Weak" -> 4
    [] v = "Common" -> 5
    [] v = "Appending" -> 6
    [] v = "ExternWeak" -> 7
    [] v = "LinkOnceODR" -> 8
    [] v = "WeakODR" -> 9
    [] v = "External" -> 10

\* a Linkage equality that takes an ODR variant for its non-ODR version
LinkageEqOdrBlind(x, y) ==
  LET base(v) == IF v = "LinkOnceODR" THEN "LinkOnce"
                 ELSE IF v = "WeakODR" THEN "Weak" ELSE v
  IN  Discriminant(base(x)) = Discriminant(base(y))

\* #[derive(PartialEq)] on a fieldless enum compares the discriminants
LinkageEq(x, y) == Discriminant(x) = Discriminant(y)

\* a Display that uses LLVM's own spelling for one variant
DisplayLlvmSpelling(v) ==
  CASE v = "Private" -> "private"
    [] v = "Internal" -> "internal"
    [] v = "AvailableExternally" -> "available_externally"
    [] v = "LinkOnce" -> "linkonce"
    [] v = "Weak" -> "weak"
    [] v = "Common" -> "common"
    [] v = "Appending" -> "appending"
    [] v = "ExternWeak" -> "extern_weak"
    [] v = "LinkOnceODR" -> "link_once_odr"
    [] v = "WeakODR" -> "weak_odr"
    [] v = "External" -> "external"

\* a Display in which a copied match arm kept the string of the arm above it
DisplayCopiedArm(v) ==
  CASE v = "Private" -> "private"
    [] v = "Internal" -> "internal"
    [] v = "AvailableExternally" -> "available_externally"
    [] v = "LinkOnce" -> "link_once"
    [] v = "Weak" -> "weak"
    [] v = "Common" -> "common"
    [] v = "Appending" -> "appending"
    [] v = "ExternWeak" -> "extern_weak"
    [] v = "LinkOnceODR" -> "link_once_odr"
    [] v = "WeakODR" -> "link_once_odr"
    [] v = "External" -> "external"

\* impl Display for Linkage: the string the match hands to write_str
Display(v) ==
  CASE v = "Private" -> "private"
    [] v = "Internal" -> "internal"
    [] v = "AvailableExternally" -> "available_externally"
    [] v = "LinkOnce" -> "link_once"
    [] v = "Weak" -> "weak"
    [] v = "Common" -> "common"
    [] v = "Appending" -> "appending"
    [] v = "ExternWeak" -> "extern_weak"
    [] v = "LinkOnceODR" -> "link_once_odr"
    [] v = "WeakODR" -> "weak_odr"
    [] v = "External" -> "external"

\* ---------------------------------------------------------------- Module
\* names a caller passes to Module::new; the empty String is one of them
Names == {"", "main", "lib"}

\* the element types of the three Vec fields, as opaque comparable values
Functions == {<<"Function", i>> : i \in 1..NumElems}
GlobalVariables == {<<"GlobalVariable", i>> : i \in 1..NumElems}
Metadatas == {<<"Metadata", i>> : i \in 1..NumElems}

\* Vec<T> values of length at most n
VecsUpTo(S, n) == UNION {[1..k -> S] : k \in 0..n}

\* Module::new that drops its argument and names the module "main"
ModuleNewFixedName(name) ==
  [name |-> "main", functions |-> <<>>, globals |-> <<>>, metadata |-> <<>>]

\* Module::new that seeds the metadata Vec with one record
ModuleNewSeeded(name) ==
  [name |-> name, functions |-> <<>>, globals |-> <<>>,
   metadata |-> << <<"Metadata", 1>> >>]

\* Module::new
ModuleNew(name) ==
  [name |-> name, functions |-> <<>>, globals |-> <<>>, metadata |-> <<>>]

\* <[T] as PartialEq>::eq, which Vec<T> == Vec<T> forwards to: the lengths
\* first, then the elements front to back
RECURSIVE SliceEq(_, _)
SliceEq(s, t) ==
  IF Len(s) # Len(t) THEN FALSE
  ELSE IF Len(s) = 0 THEN TRUE
  ELSE IF Head(s) # Head(t) THEN FALSE
  ELSE SliceEq(Tail(s), Tail(t))

\* a Module equality that compares each Vec as an unordered collection
ModuleEqUnordered(x, y) ==
  /\ x.name = y.name
  /\ Len(x.functions) = Len(y.functions)
  /\ {x.functions[i] : i \in 1..Len(x.functions)}
       = {y.functions[i] : i \in 1..Len(y.functions)}
  /\ Len(x.globals) = Len(y.globals)
  /\ {x.globals[i] : i \in 1..Len(x.globals)}
       = {y.globals[i] : i \in 1..Len(y.globals)}
  /\ Len(x.metadata) = Len(y.metadata)
  /\ {x.metadata[i] : i \in 1..Len(x.metadata)}
       = {y.metadata[i] : i \in 1..Len(y.metadata)}

\* a Module equality whose name test is written with != instead of ==
ModuleEqNegatedName(x, y) ==
  /\ x.name # y.name
  /\ SliceEq(x.functions, y.functions)
  /\ SliceEq(x.globals, y.globals)
  /\ SliceEq(x.metadata, y.metadata)

\* #[derive(PartialEq)] on struct Module: the fields in declaration order
ModuleEq(x, y) ==
  /\ x.name = y.name
  /\ SliceEq(x.functions, y.functions)
  /\ SliceEq(x.globals, y.globals)
  /\ SliceEq(x.metadata, y.metadata)

\* the Module values a struct literal inside module.rs can write down
LiteralModules ==
  {m \in [name : Names,
          functions : VecsUpTo(Functions, MaxElems),
          globals : VecsUpTo(GlobalVariables, MaxElems),
          metadata : VecsUpTo(Metadatas, MaxElems)] :
     Len(m.functions) + Len(m.globals) + Len(m.metadata) <= MaxElems}

\* ---------------------------------------------------------------- state
Slots == {"a", "b"}

VARIABLES
  lk,       \* slot -> Option<Linkage>: the two Linkage values the caller holds
  out,      \* slot -> Option<String>: format!("{}", lk[slot])
  leq,      \* Option<bool>: lk.a == lk.b
  mods,     \* slot -> Option<Module>: the two Modules the caller holds
  created,  \* slot -> Option<String>: the argument of the Module::new call
  meq       \* Option<bool>: mods.a == mods.b

vars == <<lk, out, leq, mods, created, meq>>

NoneBoth == [s \in Slots |-> None]

\* the caller holds nothing yet
Init ==
  /\ lk = NoneBoth
  /\ out = NoneBoth
  /\ leq = None
  /\ mods = NoneBoth
  /\ created = NoneBoth
  /\ meq = None

\* the caller names a variant and binds it
Construct(s, v) ==
  /\ lk' = [lk EXCEPT ![s] = Some(v)]
  /\ out' = [out EXCEPT ![s] = None]
  /\ leq' = None
  /\ UNCHANGED <<mods, created, meq>>

\* format!("{}", lk[s])
Format(s) ==
  /\ lk[s] # None
  /\ out' = [out EXCEPT ![s] = Some(Display(lk[s][1]))]
  /\ UNCHANGED <<lk, leq, mods, created, meq>>

\* lk.a == lk.b
CompareLinkage ==
  /\ lk["a"] # None
  /\ lk["b"] # None
  /\ leq' = Some(LinkageEq(lk["a"][1], lk["b"][1]))
  /\ UNCHANGED <<lk, out, mods, created, meq>>

\* let mods[s] = Module::new(n)
New(s, n) ==
  /\ mods' = [mods EXCEPT ![s] = Some(ModuleNew(n))]
  /\ created' = [created EXCEPT ![s] = Some(n)]
  /\ meq' = None
  /\ UNCHANGED <<lk, out, leq>>

\* mods.a == mods.b, through shared borrows
CompareModules ==
  /\ mods["a"] # None
  /\ mods["b"] # None
  /\ meq' = Some(ModuleEq(mods["a"][1], mods["b"][1]))
  /\ UNCHANGED <<lk, out, leq, mods, created>>

Next ==
  \/ \E s \in Slots, v \in LinkageVariants : Construct(s, v)
  \/ \E s \in Slots : Format(s)
  \/ CompareLinkage
  \/ \E s \in Slots, n \in Names : New(s, n)
  \/ CompareModules

Spec == Init /\ [][Next]_vars

\* ------------------------------------------------ equality on any Module
\* two Modules written as struct literals, as create_module writes its
\* expected value
InitEq ==
  /\ lk = NoneBoth
  /\ out = NoneBoth
  /\ leq = None
  /\ \E x \in LiteralModules, y \in LiteralModules :
       mods = [s \in Slots |-> IF s = "a" THEN Some(x) ELSE Some(y)]
  /\ created = NoneBoth
  /\ meq = None

NextEq == CompareModules

SpecEq == InitEq /\ [][NextEq]_vars

\* ================================================================ claims
\* the keyword table of the specification, section 4.1
CanonicalKeyword ==
  [v \in LinkageVariants |->
     CASE v = "Private" -> "private"
       [] v = "Internal" -> "internal"
       [] v = "AvailableExternally" -> "available_externally"
       [] v = "LinkOnce" -> "link_once"
       [] v = "Weak" -> "weak"
       [] v = "Common" -> "common"
       [] v = "Appending" -> "appending"
       [] v = "ExternWeak" -> "extern_weak"
       [] v = "LinkOnceODR" -> "link_once_odr"
       [] v = "WeakODR" -> "weak_odr"
       [] v = "External" -> "external"]

\* C1: whenever a Linkage value has been formatted, the string produced is
\* exactly the keyword the canonical table lists for its variant.
C1_EncodeMatchesTable ==
  \A s \in Slots :
    out[s] # None => out[s][1] = CanonicalKeyword[lk[s][1]]

\* both scenarios of test_stringify have been formatted
C1_Witness ==
  /\ lk["a"] = Some("LinkOnce") /\ out["a"] = Some("link_once")
  /\ lk["b"] = Some("External") /\ out["b"] = Some("external")

\* C2: formatting is possible for every variant the caller holds, and two
\* different variants never format to the same string.
C2_EncodeTotalInjective ==
  /\ \A s \in Slots : lk[s] # None => ENABLED Format(s)
  /\ (out["a"] # None /\ out["b"] # None /\ lk["a"] # lk["b"])
       => out["a"] # out["b"]

\* two variants whose keywords share a prefix have both been formatted
C2_Witness ==
  /\ lk["a"] = Some("LinkOnceODR") /\ out["a"] # None
  /\ lk["b"] = Some("WeakODR") /\ out["b"] # None

\* C3: Module::new(n) yields the Module named n with three empty Vecs, and
\* two Modules made by separate calls with the same name compare equal.
C3_NewYieldsEmptyNamed ==
  /\ \A s \in Slots :
       created[s] # None =>
         /\ mods[s] # None
         /\ mods[s][1].name = created[s][1]
         /\ mods[s][1].functions = <<>>
         /\ mods[s][1].globals = <<>>
         /\ mods[s][1].metadata = <<>>
  /\ (meq # None /\ created["a"] # None /\ created["a"] = created["b"])
       => meq[1] = TRUE

\* two separate Module::new("main") calls have been compared
C3_Witness ==
  /\ created["a"] = Some("main")
  /\ created["b"] = Some("main")
  /\ meq = Some(TRUE)

\* the fields of two Modules agree position by position
ElementWiseEqual(x, y) ==
  /\ x.name = y.name
  /\ \A f \in {"functions", "globals", "metadata"} :
       /\ Len(x[f]) = Len(y[f])
       /\ \A i \in 1..Len(x[f]) : x[f][i] = y[f][i]

\* the two Vecs hold the same elements the same number of times
SameElements(u, w) ==
  /\ Len(u) = Len(w)
  /\ \A e \in {u[i] : i \in 1..Len(u)} :
       Cardinality({i \in 1..Len(u) : u[i] = e})
         = Cardinality({i \in 1..Len(w) : w[i] = e})

\* C4: a comparison of two Modules answers true exactly when the names are
\* equal and each of the three Vecs agrees position by position; Modules
\* with different names, or with the same elements at different positions,
\* compare unequal.
C4_ModuleEqStructural ==
  meq # None =>
    LET x == mods["a"][1]
        y == mods["b"][1]
    IN  /\ meq[1] <=> ElementWiseEqual(x, y)
        /\ x.name # y.name => meq[1] = FALSE
        /\ \A f \in {"functions", "globals", "metadata"} :
             (SameElements(x[f], y[f]) /\ x[f] # y[f]) => meq[1] = FALSE

\* two Modules that differ only in the position of their two functions
\* have been compared
C4_Witness ==
  /\ meq = Some(FALSE)
  /\ mods["a"][1].name = mods["b"][1].name
  /\ Len(mods["a"][1].functions) = 2
  /\ mods["a"][1].functions[1] # mods["a"][1].functions[2]
  /\ mods["b"][1].functions
       = <<mods["a"][1].functions[2], mods["a"][1].functions[1]>>
  /\ mods["a"][1].globals = mods["b"][1].globals
  /\ mods["a"][1].metadata = mods["b"][1].metadata

\* C5: Module::new with an empty name produces no Module, and with a
\* non-empty name it produces one.
C5_EmptyNameRejected ==
  \A s \in Slots :
    created[s] # None =>
      IF created[s][1] = "" THEN mods[s] = None ELSE mods[s] # None

\* C8: a Module's name is the name that was passed to Module::new, whatever
\* the caller has done with the Module since.
C8_NameImmutable ==
  \A s \in Slots :
    (created[s] # None /\ mods[s] # None) => mods[s][1].name = created[s][1]

\* two Modules of different names have been made and then compared
C8_Witness ==
  /\ created["a"] = Some("lib")
  /\ created["b"] = Some("main")
  /\ meq = Some(FALSE)

\* C9: a comparison of two Linkage values answers true exactly when they are
\* the same variant.
C9_LinkageEqSameVariant ==
  leq # None => (leq[1] <=> lk["a"][1] = lk["b"][1])

\* an ODR variant has been compared with its non-ODR version
C9_Witness ==
  /\ lk["a"] = Some("Weak")
  /\ lk["b"] = Some("WeakODR")
  /\ leq = Some(FALSE)

\* C10: every Module the caller can hold has empty functions, globals and
\* metadata.
C10_SequencesAlwaysEmpty ==
  \A s \in Slots :
    mods[s] # None =>
      Len(mods[s][1].functions) + Len(mods[s][1].globals)
        + Len(mods[s][1].metadata) = 0

\* both slots hold a Module and the two have been compared
C10_Witness ==
  /\ mods["a"] # None
  /\ mods["b"] # None
  /\ meq # None
  /\ out["a"] # None

====
